---- MODULE Spec2Model ----
(***************************************************************************)
(* dan-demand: a Slack-to-SMS relay.  This module models                   *)
(*   - MessageTracker (tracker.go: an LRU cache of full message events and *)
(*     a registry of waiter channels),                                     *)
(*   - Limiter (limiter.go: a ticker-driven single-slot throttle),         *)
(*   - Engine.HandleMention and TwilioClient.SendMessage (engine.go,       *)
(*     twilio.go) on top of the two.                                       *)
(* Every call of a method is a record of `calls'; its position in the     *)
(* method is the record's pc.  One action is one access to shared state    *)
(* (one lru.Cache method, one critical section of waitersLock, one channel *)
(* operation), which is the granularity at which goroutines interleave.    *)
(***************************************************************************)
EXTENDS Integers, Sequences, FiniteSets, TLC

\* ------------------------------------------------------------------ bounds
\* Number of distinct messageRefs {channel, timestamp} in play.
NumRefs == 3
\* Number of method calls (goroutines) in one behaviour.
MaxCalls == 3
\* Capacity handed to lru.New.  The source sets 512; the model scales it
\* down so that a full cache and an eviction are reachable.
messageBacklog == 2

\* The Limiter's interval (l.limit), in clock units, and the last instant
\* of the model's clock.
limit == 2
MaxTime == 6
MaxMentions == 1
\* Handler functions that can be registered, Set...Handler calls and ServeHTTP
\* calls in one behaviour.
NumHandlers == 2
MaxSets == 2
MaxRequests == 1
\* Longest text handed to chunkString.
MaxLen == 6
\* The chunk length of Engine.HandleMessage.  The source sets 1600; the
\* model scales it down so that texts of one, two and three chunk lengths
\* are in reach.
twilioMsgLimit == 3

Refs == 1..NumRefs
\* event.ChannelType values: public channel, private group, multi-party IM,
\* direct IM.
ChannelTypes == {"channel", "group", "mim", "im"}

VARIABLES
    cache,      \* lru.Cache: sequence of [ref, ev], most recently used first
    waiters,    \* mt.waiters: ref -> channel id (0: no entry)
    calls,      \* the calls made so far, in order of invocation
    storedRefs, \* history: the refs ever inserted into the cache
    keepEvents, \* history switch: call records keep the event they were given
    now,        \* the clock
    tickPending,\* ticker.C (capacity 1) holds a tick
    driver,     \* Limiter.driver: "select", "send" (blocked in l.throttle <-)
                \*   or "exited"
    cancelled,  \* the driver's ctx is cancelled (Limiter.Stop)
    grantTimes, \* history: the instants at which a permit was received
    eventHandlers,    \* sed.eventHandlers: type -> handler (0: no entry)
    callbackHandlers, \* sed.callbackHandlers: inner type -> handler
    registrations,    \* history: the Set...Handler calls, in order
    requests    \* the ServeHTTP calls made so far

trackerVars == <<cache, waiters>>
limiterVars == <<now, tickPending, driver, cancelled, grantTimes>>
dispatcherVars == <<eventHandlers, callbackHandlers, registrations, requests>>
\* What no method of the tracker writes.
notTracker == <<keepEvents, limiterVars, dispatcherVars>>
\* What only HandleMessage's cache.Add writes, and what the tracker never
\* writes.
addOnly == <<storedRefs, notTracker>>

\* ------------------------------------------------------- lru.Cache methods
CacheRefs(c) == {c[i].ref : i \in DOMAIN c}

\* Contains: membership, recency untouched.
CacheContains(c, r) == r \in CacheRefs(c)

CacheEntry(c, r) == c[CHOOSE i \in DOMAIN c : c[i].ref = r]

CacheWithout(c, r) == SelectSeq(c, LAMBDA x : x.ref # r)

\* Mutant of CacheAdd: the capacity is never enforced.
CacheAdd_NoEvict(c, r, e) == <<[ref |-> r, ev |-> e]>> \o CacheWithout(c, r)

\* Add: insert or update at the front; past the capacity the oldest entry
\* (the back) is evicted.
CacheAdd(c, r, e) ==
    LET pushed == <<[ref |-> r, ev |-> e]>> \o CacheWithout(c, r)
    IN  IF Len(pushed) > messageBacklog
        THEN SubSeq(pushed, 1, Len(pushed) - 1)
        ELSE pushed

\* Get: a hit moves the entry to the front.
CacheGet(c, r) ==
    IF CacheContains(c, r) THEN <<CacheEntry(c, r)>> \o CacheWithout(c, r) ELSE c

\* Remove: delete the entry if present.
CacheRemove(c, r) == CacheWithout(c, r)

\* ------------------------------------------------------------------ calls
\* A call record.  ev = 0 stands for nil; an event is named by the index of
\* the HandleMessage call that carried it.
NewCall(op, r, pc) ==
    [op |-> op, ref |-> r, pc |-> pc,
     ctxDone |-> FALSE,     \* the call's ctx is done (deadline or cancel)
     chan |-> 0,            \* Wait: the channel it made; Handle: waiterChan
     deferred |-> FALSE,    \* Wait: defer mt.removeWaiter(ref) is armed
     gotEv |-> 0,           \* GetMessage: event, ok := mt.cache.Get(ref)
     gotOk |-> FALSE,
     retEv |-> 0,           \* the returned (event, ok)
     retOk |-> FALSE,
     chType |-> "",         \* history (keepEvents): event.ChannelType and
     mention |-> FALSE,     \*   strings.Contains(event.Text, mt.botUID)
     seenEv |-> 0,          \* history: the event mt.cache.Contains(ref)
                            \*   found in the cache (0: none)
     settledAtExpiry |-> FALSE, \* history: see Expire
     media |-> FALSE,       \* Mention: params.MediaURL # nil
     acquired |-> FALSE,    \* SendMessage: acquired := tw.limiter.Acquire(ctx)
     http |-> "",           \* SendMessage: how ctxhttp.Do ended ("": not called)
     err |-> FALSE,         \* Mention: the error returned is not nil
     reactions |-> <<>>,    \* the emojis of the AddReactionBackground calls
     timedOut |-> FALSE,    \* history: WaitForMessage left by ctx.Done
     text |-> <<>>,         \* chunkString: s; Engine.HandleMessage: baseMessage
     chunks |-> <<>>,       \* the result of chunkString
     index |-> 0,           \* Engine.HandleMessage: index of the chunk loop
     chunked |-> FALSE,     \* SendMessage: params.Chunked
     files |-> [count |-> 0, isPublic |-> FALSE, tooLarge |-> FALSE],
                            \* Engine.HandleMessage: len(event.Files),
                            \*   Files[0].IsPublic, Files[0].Size > limit
     sends |-> <<>>,        \* history: the SendMessage calls that returned
     passed |-> FALSE,      \* history: Engine.HandleMessage got past its
                            \*   channel-type and mention filters
     chunkLen |-> 0]        \* chunkString: chunkLen

Running(i) == calls[i].pc \notin {"returned", "panicked"}

\* A finished call keeps what it returned; its locals are gone.
Finished(c) ==
    IF c.pc \in {"returned", "panicked"}
    THEN [NewCall(c.op, c.ref, c.pc) EXCEPT
            !.retEv = c.retEv, !.retOk = c.retOk, !.seenEv = c.seenEv,
            !.ctxDone = c.ctxDone, !.media = c.media,
            !.acquired = c.acquired, !.http = c.http, !.err = c.err,
            !.reactions = c.reactions, !.timedOut = c.timedOut,
            !.text = c.text, !.chunks = c.chunks, !.files = c.files,
            !.sends = c.sends, !.passed = c.passed,
            !.chunkLen = c.chunkLen,
            !.chType = c.chType, !.mention = c.mention,
            !.settledAtExpiry = c.settledAtExpiry]
    ELSE c

Set(i, rec) == calls' = [calls EXCEPT ![i] = Finished(rec)]

\* Refs are interchangeable, so a behaviour names them in order of first
\* use: a call may use a ref already seen or the next unseen one.
SeenRefs == CacheRefs(cache) \cup {calls[k].ref : k \in DOMAIN calls}

MayUse(r) == \A q \in Refs : q < r => q \in SeenRefs \/ \E s \in SeenRefs : s > q

\* -------------------------------------------------- MessageTracker.HandleMessage
\* The filter of HandleMessage.  event.Type is "message" for every event the
\* dispatcher routes here (the handler is registered for slackevents.Message).
Accepts(chType, mention) ==
    /\ chType \in {"channel", "mim"}
    /\ mention

\* The events handed to HandleMessage, as (ChannelType, mention).  Where the
\* call records keep them every combination is tried; where they do not,
\* HandleMessage depends on the event only through Accepts, and one event
\* that is accepted and one that is not stand for the others.
Events ==
    IF keepEvents
    THEN ChannelTypes \X BOOLEAN
    ELSE {<<"channel", TRUE>>, <<"im", TRUE>>}

\* Call of HandleMessage with an event for ref r: the two ifs, which read
\* the event only, and mt.cache.Add(ref, event).
HandleMessage(r, ct, m) ==
    /\ Len(calls) < MaxCalls
    /\ MayUse(r)
    /\ LET i == Len(calls) + 1
           c == IF keepEvents
                THEN [NewCall("HandleMessage", r, "h_lookup") EXCEPT
                        !.chType = ct, !.mention = m]
                ELSE NewCall("HandleMessage", r, "h_lookup")
       IN  IF Accepts(ct, m)
           THEN /\ cache' = CacheAdd(cache, r, i)
                /\ storedRefs' = storedRefs \cup {r}
                /\ calls' = Append(calls, c)
           ELSE /\ UNCHANGED <<cache, storedRefs>>
                /\ calls' = Append(calls, [c EXCEPT !.pc = "returned"])
    /\ UNCHANGED <<waiters, notTracker>>

\* RLock; waiterChan, ok := mt.waiters[ref]; RUnlock.
HandleLookup(i) ==
    /\ calls[i].pc = "h_lookup"
    /\ IF waiters[calls[i].ref] # 0
       THEN Set(i, [calls[i] EXCEPT !.pc = "h_select",
                                    !.chan = waiters[calls[i].ref]])
       ELSE Set(i, [calls[i] EXCEPT !.pc = "returned"])
    /\ UNCHANGED <<cache, waiters, addOnly>>

\* Mutant of Notify: the send reaches a waiter of any channel.
Notify_AnyChannel(i, j) ==
    /\ calls[i].pc = "h_select"
    /\ calls[j].pc = "w_select"
    /\ calls' = [calls EXCEPT ![i] = [@ EXCEPT !.pc = "returned"],
                              ![j] = [@ EXCEPT !.pc = "g_get"]]
    /\ UNCHANGED <<cache, waiters, addOnly>>

\* select: case waiterChan <- struct{}{} with the receiver j blocked in its
\* own select on the same channel (an unbuffered channel: one rendezvous).
Notify(i, j) ==
    /\ calls[i].pc = "h_select"
    /\ calls[j].pc = "w_select"
    /\ calls[j].chan = calls[i].chan
    /\ calls' = [calls EXCEPT ![i] = [@ EXCEPT !.pc = "returned"],
                              ![j] = [@ EXCEPT !.pc = "g_get"]]
    /\ UNCHANGED <<cache, waiters, addOnly>>

\* select: case <-ctx.Done().
HandleCtxDone(i) ==
    /\ calls[i].pc = "h_select"
    /\ calls[i].ctxDone
    /\ Set(i, [calls[i] EXCEPT !.pc = "h_remove"])
    /\ UNCHANGED <<cache, waiters, addOnly>>

\* A variant whose clean-up also drops the event it stored.
HandleRemoveWaiter_DropsEvent(i) ==
    /\ calls[i].pc = "h_remove"
    /\ waiters' = [waiters EXCEPT ![calls[i].ref] = 0]
    /\ cache' = CacheRemove(cache, calls[i].ref)
    /\ Set(i, [calls[i] EXCEPT !.pc = "returned"])
    /\ UNCHANGED addOnly

\* mt.removeWaiter(ref) after case <-ctx.Done().
HandleRemoveWaiter(i) ==
    /\ calls[i].pc = "h_remove"
    /\ waiters' = [waiters EXCEPT ![calls[i].ref] = 0]
    /\ Set(i, [calls[i] EXCEPT !.pc = "returned"])
    /\ UNCHANGED <<cache, addOnly>>

\* ----------------------------------------------------- MessageTracker.GetMessage
\* The return of GetMessage or WaitForMessage: a call made by
\* Engine.HandleMention or server.handleMention goes on in its caller.
Returns(c) ==
    [c EXCEPT !.pc = IF c.op \in {"HandleMention", "handleMention"}
                     THEN "m_files" ELSE "returned"]

\* What GetMessage returns from its locals: the type assertion
\* event.(*slackevents.MessageEvent) panics on the nil interface a miss
\* leaves in event.  A call with a deferred removeWaiter runs it first.
AfterGet(c) ==
    IF c.gotOk
    THEN IF c.deferred
         THEN [c EXCEPT !.retEv = c.gotEv, !.retOk = TRUE, !.pc = "w_defer"]
         ELSE Returns([c EXCEPT !.retEv = c.gotEv, !.retOk = TRUE])
    ELSE [c EXCEPT !.pc = IF c.deferred THEN "w_defer_panic" ELSE "panicked"]

\* Call of GetMessage and event, ok := mt.cache.Get(ref).
GetMessage(r) ==
    /\ Len(calls) < MaxCalls
    /\ MayUse(r)
    /\ LET c == NewCall("GetMessage", r, "g_get")
       IN  IF CacheContains(cache, r)
           THEN calls' = Append(calls, [c EXCEPT !.pc = "g_remove",
                            !.gotEv = CacheEntry(cache, r).ev, !.gotOk = TRUE])
           ELSE calls' = Append(calls, AfterGet(c))
    /\ cache' = CacheGet(cache, r)
    /\ UNCHANGED <<waiters, addOnly>>

\* event, ok := mt.cache.Get(ref) inside WaitForMessage.
WaitGet(i) ==
    /\ calls[i].pc = "g_get"
    /\ IF CacheContains(cache, calls[i].ref)
       THEN Set(i, [calls[i] EXCEPT !.pc = "g_remove",
                      !.gotEv = CacheEntry(cache, calls[i].ref).ev,
                      !.gotOk = TRUE])
       ELSE Set(i, AfterGet(calls[i]))
    /\ cache' = CacheGet(cache, calls[i].ref)
    /\ UNCHANGED <<waiters, addOnly>>

\* if ok { mt.cache.Remove(ref) } and the return.
GetRemove(i) ==
    /\ calls[i].pc = "g_remove"
    /\ cache' = CacheRemove(cache, calls[i].ref)
    /\ Set(i, AfterGet(calls[i]))
    /\ UNCHANGED <<waiters, addOnly>>

\* ------------------------------------------------- MessageTracker.WaitForMessage
\* Mutant of WaitForMessage: the cache is not consulted before waiting.
WaitForMessage_NoCacheCheck(r) ==
    /\ Len(calls) < MaxCalls
    /\ MayUse(r)
    /\ calls' = Append(calls,
         [NewCall("WaitForMessage", r, "w_add") EXCEPT
            !.seenEv = IF CacheContains(cache, r)
                       THEN CacheEntry(cache, r).ev ELSE 0])
    /\ UNCHANGED <<cache, waiters, addOnly>>

\* Call and if mt.cache.Contains(ref).
WaitForMessage(r) ==
    /\ Len(calls) < MaxCalls
    /\ MayUse(r)
    /\ LET c == NewCall("WaitForMessage", r, "w_add")
       IN  IF CacheContains(cache, r)
           THEN calls' = Append(calls, [c EXCEPT !.pc = "g_get",
                                          !.seenEv = CacheEntry(cache, r).ev])
           ELSE calls' = Append(calls, c)
    /\ UNCHANGED <<cache, waiters, addOnly>>

\* waitChan := mt.addWaiter(ref); defer mt.removeWaiter(ref).
WaitAddWaiter(i) ==
    /\ calls[i].pc = "w_add"
    /\ waiters' = [waiters EXCEPT ![calls[i].ref] = i]
    /\ Set(i, [calls[i] EXCEPT !.pc = "w_select", !.chan = i,
                               !.deferred = TRUE])
    /\ UNCHANGED <<cache, addOnly>>

\* Mutant of WaitCtxDone: the timeout path returns without the deferred
\* removeWaiter.
WaitCtxDone_NoDefer(i) ==
    /\ calls[i].pc = "w_select"
    /\ calls[i].ctxDone
    /\ Set(i, [calls[i] EXCEPT !.pc = "returned"])
    /\ UNCHANGED <<cache, waiters, addOnly>>

\* select: case <-ctx.Done(): return nil, false.
WaitCtxDone(i) ==
    /\ calls[i].pc = "w_select"
    /\ calls[i].ctxDone
    /\ Set(i, [calls[i] EXCEPT !.pc = "w_defer", !.timedOut = TRUE])
    /\ UNCHANGED <<cache, waiters, addOnly>>

\* A variant in which HandleMessage keeps mt.waiterLock.RLock() over its
\* select (defer RUnlock): the Lock() of the deferred removeWaiter has to
\* wait for every HandleMessage that is blocked on its notification.
WaitRemoveWaiter_WhileReadLocked(i) ==
    /\ calls[i].pc \in {"w_defer", "w_defer_panic"}
    /\ \A k \in DOMAIN calls : calls[k].pc # "h_select"
    /\ waiters' = [waiters EXCEPT ![calls[i].ref] = 0]
    /\ Set(i, IF calls[i].pc = "w_defer"
               THEN Returns(calls[i])
               ELSE [calls[i] EXCEPT !.pc = "panicked"])
    /\ UNCHANGED <<cache, addOnly>>

\* The deferred mt.removeWaiter(ref), on a return and on a panic.
WaitRemoveWaiter(i) ==
    /\ calls[i].pc \in {"w_defer", "w_defer_panic"}
    /\ waiters' = [waiters EXCEPT ![calls[i].ref] = 0]
    /\ Set(i, IF calls[i].pc = "w_defer"
               THEN Returns(calls[i])
               ELSE [calls[i] EXCEPT !.pc = "panicked"])
    /\ UNCHANGED <<cache, addOnly>>

\* ------------------------------------------------------------ context
\* All HandleMessage calls for ref r have returned.
StoresSettled(r) ==
    \A k \in DOMAIN calls :
        calls[k].op = "HandleMessage" /\ calls[k].ref = r => ~Running(k)

\* The ctx of a call becomes done: its deadline expires or its request is
\* cancelled.  Only the selects read ctx, so the model lets it become done
\* while the call is in its select.  settledAtExpiry records whether, at
\* that moment, the event for the call's ref was in the cache with no
\* HandleMessage for the ref still running.
Expire(i) ==
    /\ calls[i].pc \in {"h_select", "w_select", "a_select"}
    /\ ~calls[i].ctxDone
    /\ Set(i, [calls[i] EXCEPT !.ctxDone = TRUE,
                 !.settledAtExpiry = /\ CacheContains(cache, calls[i].ref)
                                     /\ StoresSettled(calls[i].ref)])
    /\ UNCHANGED <<cache, waiters, addOnly>>

\* ------------------------------------------------------------------ Limiter
\* The clock.  Every l.limit the ticker sends a tick on ticker.C without
\* blocking: it is kept if ticker.C (capacity 1) is empty and dropped
\* otherwise.  What takes no time comes first: the clock stands still while
\* the driver can leave its select, while a receiver is blocked on
\* l.throttle with the driver sending, and while a call sits in a select
\* whose ctx is done.
Tick ==
    /\ now < MaxTime
    /\ ~(driver = "select" /\ (tickPending \/ cancelled))
    /\ ~(driver = "send" /\ \E i \in DOMAIN calls : calls[i].pc = "a_select")
    /\ ~\E i \in DOMAIN calls :
          calls[i].pc \in {"h_select", "w_select", "a_select"} /\ calls[i].ctxDone
    /\ now' = now + 1
    /\ tickPending' = (tickPending \/ (now + 1) % limit = 0)
    /\ UNCHANGED <<driver, cancelled, grantTimes, calls, trackerVars,
                   storedRefs, keepEvents, dispatcherVars>>

\* driver: case <-ticker.C, then l.throttle <- struct{}{} blocks.
DriverTick ==
    /\ driver = "select"
    /\ tickPending
    /\ tickPending' = FALSE
    /\ driver' = "send"
    /\ UNCHANGED <<now, cancelled, grantTimes, calls, trackerVars,
                   storedRefs, keepEvents, dispatcherVars>>

\* driver: case <-ctx.Done(): return.
DriverCtxDone ==
    /\ driver = "select"
    /\ cancelled
    /\ driver' = "exited"
    /\ UNCHANGED <<now, tickPending, cancelled, grantTimes, calls,
                   trackerVars, storedRefs, keepEvents, dispatcherVars>>

\* Stop: l.cancel().
Stop ==
    /\ ~cancelled
    /\ cancelled' = TRUE
    /\ UNCHANGED <<now, tickPending, driver, grantTimes, calls, trackerVars,
                   storedRefs, keepEvents, dispatcherVars>>

\* History: one SendMessage call of Engine.HandleMessage, with its params,
\* the result of Acquire and the way ctxhttp.Do ended ("": it was not
\* called).
SendRecord(c, acquired, http) ==
    [index |-> c.index, chunk |-> c.chunks[c.index + 1],
     chunked |-> c.chunked, media |-> c.media,
     acquired |-> acquired, http |-> http]

\* A variant of AfterAcquire in which SendMessage goes on to ctxhttp.Do
\* whatever Acquire returned.
AfterAcquire_SendsAnyway(c, b) ==
    IF c.op \in {"HandleMention", "EngineHandleMessage", "handleMention"}
    THEN [c EXCEPT !.acquired = b, !.pc = "m_http"]
    ELSE [c EXCEPT !.retOk = b, !.pc = "returned"]

\* The return of Acquire with result b.  In TwilioClient.SendMessage:
\* if acquired := tw.limiter.Acquire(ctx); params.Chunked || acquired goes
\* on to ctxhttp.Do, else returns errors.New("rate limit hit"), on which
\* HandleMention posts thumbsdown and returns the error.  HandleMention
\* never sets params.Chunked; the chunk loop of Engine.HandleMessage sets it
\* for index > 0 and does the same on an error.  In the twilioClient of
\* server.handleMention: if acquired goes on to ctxhttp.Do, else logs
\* "hit the rate limit" and returns nil, after which handleMention posts
\* thumbsup.
AfterAcquire(c, b) ==
    IF c.op = "HandleMention"
    THEN IF b
         THEN [c EXCEPT !.acquired = TRUE, !.pc = "m_http"]
         ELSE [c EXCEPT !.err = TRUE, !.reactions = Append(@, "thumbsdown"),
                        !.pc = "returned"]
    ELSE IF c.op = "EngineHandleMessage"
    THEN IF c.chunked \/ b
         THEN [c EXCEPT !.acquired = b, !.pc = "m_http"]
         ELSE [c EXCEPT !.sends = Append(@, SendRecord(c, FALSE, "")),
                        !.err = TRUE, !.reactions = Append(@, "thumbsdown"),
                        !.pc = "returned"]
    ELSE IF c.op = "handleMention"
    THEN IF b
         THEN [c EXCEPT !.acquired = TRUE, !.pc = "m_http"]
         ELSE [c EXCEPT !.reactions = Append(@, "thumbsup"), !.pc = "returned"]
    ELSE [c EXCEPT !.retOk = b, !.pc = "returned"]

\* Call of Acquire(ctx): the select blocks.
Acquire ==
    /\ Len(calls) < MaxCalls
    /\ calls' = Append(calls, NewCall("Acquire", 0, "a_select"))
    /\ UNCHANGED <<trackerVars, storedRefs, keepEvents, limiterVars,
                   dispatcherVars>>

\* Acquire: case <-l.throttle, the rendezvous with the driver's send.
AcquireRecv(i) ==
    /\ calls[i].pc = "a_select"
    /\ driver = "send"
    /\ driver' = "select"
    /\ grantTimes' = Append(grantTimes, now)
    /\ Set(i, AfterAcquire(calls[i], TRUE))
    /\ UNCHANGED <<now, tickPending, cancelled, trackerVars, storedRefs,
                   keepEvents, dispatcherVars>>

\* A variant in which the caller that gives up takes the offered permit with
\* it: the driver's send completes, the call returns false.
AcquireCtxDone_TakesPermit(i) ==
    /\ calls[i].pc = "a_select"
    /\ calls[i].ctxDone
    /\ driver = "send"
    /\ driver' = "select"
    /\ grantTimes' = Append(grantTimes, now)
    /\ Set(i, AfterAcquire(calls[i], FALSE))
    /\ UNCHANGED <<now, tickPending, cancelled, trackerVars, storedRefs,
                   keepEvents, dispatcherVars>>

\* Acquire: case <-ctx.Done(): return false.
AcquireCtxDone(i) ==
    /\ calls[i].pc = "a_select"
    /\ calls[i].ctxDone
    /\ Set(i, AfterAcquire(calls[i], FALSE))
    /\ UNCHANGED <<trackerVars, storedRefs, keepEvents, limiterVars,
                   dispatcherVars>>

\* A variant without the default case: with no permit on offer the call
\* waits in the select like Acquire.
TryAcquire_Waits ==
    /\ Len(calls) < MaxCalls
    /\ IF driver = "send"
       THEN /\ driver' = "select"
            /\ grantTimes' = Append(grantTimes, now)
            /\ calls' = Append(calls,
                 [NewCall("TryAcquire", 0, "returned") EXCEPT !.retOk = TRUE])
       ELSE /\ UNCHANGED <<driver, grantTimes>>
            /\ calls' = Append(calls, NewCall("TryAcquire", 0, "a_select"))
    /\ UNCHANGED <<now, tickPending, cancelled, trackerVars, storedRefs,
                   keepEvents, dispatcherVars>>

\* TryAcquire: the receive succeeds if the driver is blocked in its send;
\* default: return false.
TryAcquire ==
    /\ Len(calls) < MaxCalls
    /\ IF driver = "send"
       THEN /\ driver' = "select"
            /\ grantTimes' = Append(grantTimes, now)
            /\ calls' = Append(calls,
                 [NewCall("TryAcquire", 0, "returned") EXCEPT !.retOk = TRUE])
       ELSE /\ UNCHANGED <<driver, grantTimes>>
            /\ calls' = Append(calls, NewCall("TryAcquire", 0, "returned"))
    /\ UNCHANGED <<now, tickPending, cancelled, trackerVars, storedRefs,
                   keepEvents, dispatcherVars>>

\* ---------------------------------------------------- Engine.HandleMention
\* The invocations of the Engine's handler, in either version of the Engine.
Mentions ==
    {i \in DOMAIN calls : calls[i].op \in {"HandleMention", "EngineHandleMessage"}}

\* Call of HandleMention under the ctx of ServeHTTP, and
\* e.slackWrapper.LookupUserName, which succeeds or fails; on a failure:
\* thumbsdown and the error.
HandleMention(r, nameOk) ==
    /\ Len(calls) < MaxCalls
    /\ Cardinality(Mentions) < MaxMentions
    /\ MayUse(r)
    /\ calls' = Append(calls,
         IF nameOk
         THEN NewCall("HandleMention", r, "m_wait")
         ELSE [NewCall("HandleMention", r, "returned") EXCEPT
                 !.err = TRUE, !.reactions = Append(@, "thumbsdown")])
    /\ UNCHANGED <<trackerVars, storedRefs, keepEvents, limiterVars,
                   dispatcherVars>>

\* e.tracker.WaitForMessage(ctx, event.Channel, event.TimeStamp): the call
\* and if mt.cache.Contains(ref).
MentionWaitForMessage(i) ==
    /\ calls[i].pc = "m_wait"
    /\ IF CacheContains(cache, calls[i].ref)
       THEN Set(i, [calls[i] EXCEPT !.pc = "g_get",
                      !.seenEv = CacheEntry(cache, calls[i].ref).ev])
       ELSE Set(i, [calls[i] EXCEPT !.pc = "w_add"])
    /\ UNCHANGED <<cache, waiters, addOnly>>

\* if ok { if len(msgData.Files) > 0 { if msgData.Files[0].IsPublic {...}}}:
\* files is what the retrieved event carries; ShareFilePublic, a request
\* under ctx, succeeds (shareOk) only with ctx not done, and its failure
\* ends the handler with thumbsdown and the error.  Then SendMessage builds
\* its request and calls tw.limiter.Acquire(ctx).
MentionFiles(i, files, shareOk) ==
    /\ calls[i].op = "HandleMention"
    /\ calls[i].pc = "m_files"
    /\ shareOk => ~calls[i].ctxDone
    /\ IF calls[i].retOk /\ files = "public"
       THEN IF shareOk
            THEN Set(i, [calls[i] EXCEPT !.media = TRUE, !.pc = "a_select"])
            ELSE Set(i, [calls[i] EXCEPT !.err = TRUE,
                           !.reactions = Append(@, "thumbsdown"), !.pc = "returned"])
       ELSE Set(i, [calls[i] EXCEPT !.pc = "a_select"])
    /\ UNCHANGED <<cache, waiters, addOnly>>

\* SendMessage: ctxhttp.Do(ctx, tw.client, req).  With ctx done the
\* transport returns ctx.Err() before it sends anything ("ctx"); otherwise
\* the gateway answers 2xx with a body that decodes ("ok"), or the request
\* fails, the status is not 2xx or the body does not decode ("fail").
\* HandleMention posts thumbsdown and returns the error, or posts thumbsup
\* and returns nil.
MentionHTTP(i, answer) ==
    /\ calls[i].op = "HandleMention"
    /\ calls[i].pc = "m_http"
    /\ LET how == IF calls[i].ctxDone THEN "ctx" ELSE answer
       IN  IF how = "ok"
           THEN Set(i, [calls[i] EXCEPT !.http = how,
                          !.reactions = Append(@, "thumbsup"), !.pc = "returned"])
           ELSE Set(i, [calls[i] EXCEPT !.http = how, !.err = TRUE,
                          !.reactions = Append(@, "thumbsdown"), !.pc = "returned"])
    /\ UNCHANGED <<cache, waiters, addOnly>>

\* ------------------------------------------------- server.handleMention
\* Call of handleMention under the ctx of the request.  An error of
\* lookupUserName is only logged and the name becomes "unknown", so the
\* handler goes on to s.tracker.WaitForMessage either way.
handleMention(r) ==
    /\ Len(calls) < MaxCalls
    /\ Cardinality({i \in DOMAIN calls : calls[i].op = "handleMention"})
         < MaxMentions
    /\ MayUse(r)
    /\ calls' = Append(calls, NewCall("handleMention", r, "m_wait"))
    /\ UNCHANGED <<trackerVars, storedRefs, keepEvents, limiterVars,
                   dispatcherVars>>

\* if ok { if len(msgData.Files) > 0 { if msgData.Files[0].IsPublic {...}}}:
\* an error of ShareFilePublicURLContext is only logged and the message goes
\* out without media.  Then SendMessage builds its request and calls
\* tw.limiter.Acquire(ctx).
ServerFiles(i, files, shareOk) ==
    /\ calls[i].op = "handleMention"
    /\ calls[i].pc = "m_files"
    /\ shareOk => ~calls[i].ctxDone
    /\ Set(i, [calls[i] EXCEPT
                 !.media = (calls[i].retOk /\ files = "public" /\ shareOk),
                 !.pc = "a_select"])
    /\ UNCHANGED <<cache, waiters, addOnly>>

\* twilioClient.SendMessage: ctxhttp.Do(ctx, tw.client, req), and the end of
\* handleMention.  With ctx done the transport returns ctx.Err() ("ctx");
\* the request fails or a 2xx body does not decode ("fail"); the gateway
\* answers with another status, which is logged and gives nil
\* ("rejected"); or all is well ("ok").  On an error handleMention starts a
\* goroutine that posts thumbsdown, logs, falls out of the if and starts the
\* goroutine that posts thumbsup.
ServerSend(i, answer) ==
    /\ calls[i].op = "handleMention"
    /\ calls[i].pc = "m_http"
    /\ LET how == IF calls[i].ctxDone THEN "ctx" ELSE answer
       IN  IF how \in {"ctx", "fail"}
           THEN Set(i, [calls[i] EXCEPT !.http = how, !.err = TRUE,
                          !.reactions = Append(Append(@, "thumbsdown"),
                                               "thumbsup"),
                          !.pc = "returned"])
           ELSE Set(i, [calls[i] EXCEPT !.http = how,
                          !.reactions = Append(@, "thumbsup"),
                          !.pc = "returned"])
    /\ UNCHANGED <<cache, waiters, addOnly>>

\* ------------------------------------------- Engine.HandleMessage (twilio.go)
\* The texts handed to chunkString: over two letters, and the one text of
\* each length whose characters are their positions.
Texts == UNION {[1..n -> {"a", "b"}] : n \in 0..MaxLen}
Numbered(n) == [k \in 1..n |-> k]
\* len(event.Files), and of Files[0] whether it is public and whether its
\* Size is above twilioFileSizeLimit.
FileSets ==
    {[count |-> 0, isPublic |-> FALSE, tooLarge |-> FALSE],
     [count |-> 1, isPublic |-> FALSE, tooLarge |-> FALSE],
     [count |-> 1, isPublic |-> TRUE, tooLarge |-> FALSE],
     [count |-> 1, isPublic |-> TRUE, tooLarge |-> TRUE],
     [count |-> 2, isPublic |-> FALSE, tooLarge |-> FALSE],
     [count |-> 2, isPublic |-> TRUE, tooLarge |-> FALSE]}

\* A variant of chunkString whose loop ends as soon as nothing is left.
RECURSIVE chunkString_StopsWhenEmpty(_, _)
chunkString_StopsWhenEmpty(s, chunkLen) ==
    IF Len(s) <= chunkLen
    THEN <<s>>
    ELSE <<SubSeq(s, 1, chunkLen)>>
         \o chunkString_StopsWhenEmpty(SubSeq(s, chunkLen + 1, Len(s)), chunkLen)

\* A variant of chunkString that breaks without appending what is left.
RECURSIVE chunkString_DropsRest(_, _)
chunkString_DropsRest(s, chunkLen) ==
    IF Len(s) < chunkLen
    THEN <<>>
    ELSE <<SubSeq(s, 1, chunkLen)>>
         \o chunkString_DropsRest(SubSeq(s, chunkLen + 1, Len(s)), chunkLen)

\* chunkString: for { if len(s) < chunkLen { append(s); break };
\* append(s[:chunkLen]); s = s[chunkLen:] }.
RECURSIVE chunkString(_, _)
chunkString(s, chunkLen) ==
    IF Len(s) < chunkLen
    THEN <<s>>
    ELSE <<SubSeq(s, 1, chunkLen)>>
         \o chunkString(SubSeq(s, chunkLen + 1, Len(s)), chunkLen)

\* The chunk lengths chunkString is tried with, twilioMsgLimit among them.
ChunkLens == 1..twilioMsgLimit

\* chunkString(s, chunkLen) on its own.
ChunkString(i) ==
    /\ calls[i].op = "chunkString"
    /\ calls[i].pc = "call"
    /\ Set(i, [calls[i] EXCEPT
                 !.chunks = chunkString(calls[i].text, calls[i].chunkLen),
                 !.pc = "returned"])
    /\ UNCHANGED <<cache, waiters, addOnly>>

\* Engine.HandleMessage up to the Acquire of its first SendMessage: the two
\* filters (return nil), LookupUserName (thumbsdown and the error), the
\* size check of a public Files[0] (scronch and an error), ShareFilePublic
\* (thumbsdown and the error), chunkString(baseMessage, twilioMsgLimit), and
\* the first params of the loop: Chunked false, the media URL if there is
\* one.  The event decides ct, m, f and n (the length of baseMessage), the
\* Slack API nameOk and shareOk.
EngineHandleMessage ==
    /\ Len(calls) < MaxCalls
    /\ Cardinality(Mentions) < MaxMentions
    /\ \E ct \in ChannelTypes, m \in BOOLEAN, nameOk \in BOOLEAN,
          f \in FileSets, shareOk \in BOOLEAN, n \in 1..MaxLen :
         LET c == IF keepEvents
                  THEN [NewCall("EngineHandleMessage", 0, "returned") EXCEPT
                          !.chType = ct, !.mention = m]
                  ELSE NewCall("EngineHandleMessage", 0, "returned")
             p == [c EXCEPT !.passed = TRUE]
             failed == [p EXCEPT !.err = TRUE,
                                 !.reactions = Append(@, "thumbsdown")]
         IN  calls' = Append(calls,
               IF ~(ct \in {"channel", "mim", "group"}) \/ ~m THEN c
               ELSE IF ~nameOk THEN failed
               ELSE IF f.count > 0 /\ f.isPublic /\ f.tooLarge
                    THEN [p EXCEPT !.files = f, !.err = TRUE,
                                   !.reactions = Append(@, "scronch")]
               ELSE IF f.count > 0 /\ f.isPublic /\ ~shareOk
                    THEN [failed EXCEPT !.files = f]
               ELSE [p EXCEPT !.files = f,
                              !.text = Numbered(n),
                              !.chunks = chunkString(Numbered(n), twilioMsgLimit),
                              !.index = 0,
                              !.chunked = FALSE,
                              !.media = (f.count > 0 /\ f.isPublic),
                              !.pc = "a_select"])
    /\ UNCHANGED <<trackerVars, storedRefs, keepEvents, limiterVars,
                   dispatcherVars>>

\* A variant of EngineSend that tries a failed chunk again.
EngineSend_RetriesOnFailure(i, answer) ==
    /\ calls[i].op = "EngineHandleMessage"
    /\ calls[i].pc = "m_http"
    /\ LET c == calls[i]
           how == IF c.ctxDone THEN "ctx" ELSE answer
           sent == [c EXCEPT !.sends = Append(@, SendRecord(c, c.acquired, how))]
       IN  IF how # "ok"
           THEN Set(i, [sent EXCEPT !.acquired = FALSE, !.pc = "a_select"])
           ELSE IF c.index + 1 < Len(c.chunks)
           THEN Set(i, [sent EXCEPT !.index = c.index + 1,
                                    !.chunked = (c.index + 1 > 0),
                                    !.media = FALSE,
                                    !.acquired = FALSE,
                                    !.pc = "a_select"])
           ELSE Set(i, [sent EXCEPT
                          !.reactions = Append(@, IF c.files.count > 0
                                                  THEN "foot" ELSE "thumbsup"),
                          !.pc = "returned"])
    /\ UNCHANGED <<cache, waiters, addOnly>>

\* A variant of EngineSend that leaves params as they are for the next
\* chunk: the media URL is not cleared and Chunked is not set.
EngineSend_KeepsParams(i, answer) ==
    /\ calls[i].op = "EngineHandleMessage"
    /\ calls[i].pc = "m_http"
    /\ LET c == calls[i]
           how == IF c.ctxDone THEN "ctx" ELSE answer
           sent == [c EXCEPT !.sends = Append(@, SendRecord(c, c.acquired, how))]
       IN  IF how # "ok"
           THEN Set(i, [sent EXCEPT !.err = TRUE, !.reactions = Append(@, "thumbsdown"),
                                    !.pc = "returned"])
           ELSE IF c.index + 1 < Len(c.chunks)
           THEN Set(i, [sent EXCEPT !.index = c.index + 1,
                                    !.acquired = FALSE,
                                    !.pc = "a_select"])
           ELSE Set(i, [sent EXCEPT
                          !.reactions = Append(@, IF c.files.count > 0
                                                  THEN "foot" ELSE "thumbsup"),
                          !.pc = "returned"])
    /\ UNCHANGED <<cache, waiters, addOnly>>

\* SendMessage of the chunk loop: ctxhttp.Do as in MentionHTTP.  On an
\* error: thumbsdown and the error.  Otherwise the next chunk, with Chunked
\* true and no media, up to its Acquire; after the last chunk the reaction
\* foot (with files) or thumbsup, and nil.
EngineSend(i, answer) ==
    /\ calls[i].op = "EngineHandleMessage"
    /\ calls[i].pc = "m_http"
    /\ LET c == calls[i]
           how == IF c.ctxDone THEN "ctx" ELSE answer
           sent == [c EXCEPT !.sends = Append(@, SendRecord(c, c.acquired, how))]
       IN  IF how # "ok"
           THEN Set(i, [sent EXCEPT !.err = TRUE, !.reactions = Append(@, "thumbsdown"),
                                    !.pc = "returned"])
           ELSE IF c.index + 1 < Len(c.chunks)
           THEN Set(i, [sent EXCEPT !.index = c.index + 1,
                                    !.chunked = (c.index + 1 > 0),
                                    !.media = FALSE,
                                    !.acquired = FALSE,
                                    !.pc = "a_select"])
           ELSE Set(i, [sent EXCEPT
                          !.reactions = Append(@, IF c.files.count > 0
                                                  THEN "foot" ELSE "thumbsup"),
                          !.pc = "returned"])
    /\ UNCHANGED <<cache, waiters, addOnly>>

\* ------------------------------------------------------ SlackEventDispatcher
\* slackevents.URLVerification and slackevents.CallbackEvent, one more
\* top-level type, and an inner type of a callback.
URLVerification == "url_verification"
CallbackEvent == "event_callback"
TopTypes == {URLVerification, CallbackEvent, "app_rate_limited"}
InnerTypes == {"message"}
\* The keys handlers get registered under, in either table.
Keys == TopTypes \cup InnerTypes
Handlers == 1..NumHandlers
\* sed.config.VerificationToken and the tokens a payload can carry.
VerificationToken == "secret"
Tokens == {"secret", "wrong"}
\* The challenge strings of a url_verification payload, as sequences of
\* characters.
Challenges == {<<>>, <<"a", "b">>}

\* The request bodies: one that does not parse, and for each top-level type
\* the well-formed ones.
Payloads ==
    {[wellFormed |-> FALSE, token |-> "secret", type |-> "", inner |-> "",
      challenge |-> <<>>]}
    \cup {[wellFormed |-> TRUE, token |-> t, type |-> URLVerification,
           inner |-> "", challenge |-> c] : t \in Tokens, c \in Challenges}
    \cup {[wellFormed |-> TRUE, token |-> t, type |-> CallbackEvent,
           inner |-> i, challenge |-> <<>>] : t \in Tokens, i \in InnerTypes}
    \cup {[wellFormed |-> TRUE, token |-> t, type |-> "app_rate_limited",
           inner |-> "", challenge |-> <<>>] : t \in Tokens}

\* slackevents.ParseEvent with OptionVerifyToken: an error for a body it
\* cannot parse and for a token other than the configured one.
ParseEvent(p) ==
    [err |-> ~p.wellFormed \/ p.token # VerificationToken,
     Type |-> p.type,
     InnerType |-> p.inner]

\* handleURLVerification: the challenge of the body.  The body is the one
\* ParseEvent has parsed as a url_verification event, so json.Unmarshal
\* into a ChallengeResponse does not fail on it.
handleURLVerification(p) == p.challenge

\* A variant of Route without the URLVerification case.
Route_NoChallengeCase(apiEvent) ==
    IF apiEvent.Type = CallbackEvent
    THEN [table |-> "callback", key |-> apiEvent.InnerType]
    ELSE [table |-> "event", key |-> apiEvent.Type]

\* A variant of Route that looks every payload up by its top-level type.
Route_TopLevelOnly(apiEvent) ==
    IF apiEvent.Type = URLVerification
    THEN [table |-> "challenge", key |-> ""]
    ELSE [table |-> "event", key |-> apiEvent.Type]

\* switch apiEvent.Type: the table and the key of the lookup.
Route(apiEvent) ==
    IF apiEvent.Type = URLVerification
    THEN [table |-> "challenge", key |-> ""]
    ELSE IF apiEvent.Type = CallbackEvent
         THEN [table |-> "callback", key |-> apiEvent.InnerType]
         ELSE [table |-> "event", key |-> apiEvent.Type]

\* sync.Map.Load on the table of a route: the handler, 0 for ok = false.
Load(route) ==
    IF route.table = "callback" THEN callbackHandlers[route.key]
    ELSE IF route.table = "event" THEN eventHandlers[route.key]
    ELSE 0

\* A variant of Status that answers every request with 200.
Status_IgnoresHandlerErr(handlerErr) == 200

\* if handlerErr != nil { resp.WriteHeader(http.StatusInternalServerError) };
\* a response whose header was never written goes out with 200.
Status(handlerErr) == IF handlerErr THEN 500 ELSE 200

\* A variant of Missing that fails the request.
Missing_IsAnError(req) ==
    [req EXCEPT !.pc = "done", !.handlerErr = TRUE, !.status = Status(TRUE)]

\* else { glog.Infof("no ... handler for ...") }: handlerErr stays nil, the
\* body stays empty.
Missing(req) ==
    [req EXCEPT !.pc = "done", !.status = Status(FALSE)]

NewRequest(p) ==
    [payload |-> p,
     pc |-> "switch",
     invoked |-> <<>>,     \* history: the handlers called, with their lookup
     handlerErr |-> FALSE,
     status |-> 0,         \* the response's status code, 0 until it is sent
     ctype |-> "",         \* the response's Content-Type header
     body |-> <<>>,        \* what resp.Write has written
     candidates |-> {}]    \* history: see Registered

\* History: the handlers that the key of a request's lookup has held since
\* the request came in, as long as its lookup is still to come.
Registered(table, key, h) ==
    [i \in DOMAIN requests |->
       IF /\ requests[i].pc = "switch"
          /\ Route(ParseEvent(requests[i].payload)) = [table |-> table, key |-> key]
       THEN [requests[i] EXCEPT !.candidates = @ \cup {h}]
       ELSE requests[i]]

\* Handler functions are named in the order of their first registration.
MayRegister(h) ==
    \A g \in 1..(h - 1) : \E n \in DOMAIN registrations :
        registrations[n].handler = g

\* A variant of SetEventHandler with LoadOrStore: the first registration of
\* a key stays.
SetEventHandler_KeepsFirst(etype, handler) ==
    /\ Len(registrations) < MaxSets
    /\ MayRegister(handler)
    /\ eventHandlers' = IF eventHandlers[etype] = 0
                        THEN [eventHandlers EXCEPT ![etype] = handler]
                        ELSE eventHandlers
    /\ registrations' = Append(registrations,
         [table |-> "event", key |-> etype, handler |-> handler])
    /\ requests' = Registered("event", etype, eventHandlers'[etype])
    /\ UNCHANGED <<callbackHandlers, trackerVars, calls, storedRefs,
                   keepEvents, limiterVars>>

\* SetEventHandler: sed.eventHandlers.Store(etype, handler).
SetEventHandler(etype, handler) ==
    /\ Len(registrations) < MaxSets
    /\ MayRegister(handler)
    /\ eventHandlers' = [eventHandlers EXCEPT ![etype] = handler]
    /\ registrations' = Append(registrations,
         [table |-> "event", key |-> etype, handler |-> handler])
    /\ requests' = Registered("event", etype, handler)
    /\ UNCHANGED <<callbackHandlers, trackerVars, calls, storedRefs,
                   keepEvents, limiterVars>>

\* SetCallbackHandler: sed.callbackHandlers.Store(ctype, handler).
SetCallbackHandler(ctype, handler) ==
    /\ Len(registrations) < MaxSets
    /\ MayRegister(handler)
    /\ callbackHandlers' = [callbackHandlers EXCEPT ![ctype] = handler]
    /\ registrations' = Append(registrations,
         [table |-> "callback", key |-> ctype, handler |-> handler])
    /\ requests' = Registered("callback", ctype, handler)
    /\ UNCHANGED <<eventHandlers, trackerVars, calls, storedRefs,
                   keepEvents, limiterVars>>

\* Call of ServeHTTP: the body is read and parsed; on an error the response
\* is 500 and nothing else happens.
ServeHTTP(p) ==
    /\ Len(requests) < MaxRequests
    /\ LET apiEvent == ParseEvent(p)
           h == Load(Route(apiEvent))
       IN  requests' = Append(requests,
             IF apiEvent.err
             THEN [NewRequest(p) EXCEPT !.pc = "done", !.status = 500]
             ELSE [NewRequest(p) EXCEPT
                     !.candidates = IF h = 0 THEN {} ELSE {h}])
    /\ UNCHANGED <<eventHandlers, callbackHandlers, registrations,
                   trackerVars, calls, storedRefs, keepEvents, limiterVars>>

\* The switch: the challenge is answered at once; otherwise the Load on the
\* table of the route, and with ok the call of the handler found.
Dispatch(i) ==
    /\ requests[i].pc = "switch"
    /\ LET req == requests[i]
           route == Route(ParseEvent(req.payload))
           h == Load(route)
       IN  requests' = [requests EXCEPT ![i] =
             IF route.table = "challenge"
             THEN [req EXCEPT !.pc = "done",
                              !.ctype = "text",
                              !.body = handleURLVerification(req.payload),
                              !.status = Status(FALSE)]
             ELSE IF h # 0
                  THEN [req EXCEPT !.pc = "handler",
                          !.invoked = Append(@, [handler |-> h,
                                                 table |-> route.table,
                                                 key |-> route.key])]
                  ELSE Missing(req)]
    /\ UNCHANGED <<eventHandlers, callbackHandlers, registrations,
                   trackerVars, calls, storedRefs, keepEvents, limiterVars>>

\* The handler returns nil or an error (failed), and the response goes out.
HandlerReturns(i, failed) ==
    /\ requests[i].pc = "handler"
    /\ requests' = [requests EXCEPT ![i] =
         [@ EXCEPT !.pc = "done", !.handlerErr = failed,
                   !.status = Status(failed)]]
    /\ UNCHANGED <<eventHandlers, callbackHandlers, registrations,
                   trackerVars, calls, storedRefs, keepEvents, limiterVars>>

\* NewSlackEventDispatcher: two empty tables.
DispatcherInit ==
    /\ eventHandlers = [k \in Keys |-> 0]
    /\ callbackHandlers = [k \in Keys |-> 0]
    /\ registrations = <<>>
    /\ requests = <<>>

\* ------------------------------------------------------------ specification
\* The tracker after some earlier traffic: the cache holds events of
\* HandleMessage calls that have returned (the event of ref r is named -r),
\* no call is running and no waiter is registered.
LimiterInit ==
    /\ now = 0
    /\ tickPending = FALSE
    /\ driver = "select"
    /\ cancelled = FALSE
    /\ grantTimes = <<>>

TrackerInit ==
    /\ DispatcherInit
    /\ keepEvents = FALSE
    /\ LimiterInit
    /\ \E n \in 0..messageBacklog :
         /\ cache = [k \in 1..n |-> [ref |-> k, ev |-> 0 - k]]
         /\ storedRefs = 1..n
    /\ waiters = [r \in Refs |-> 0]
    /\ calls = <<>>

TrackerStep ==
    \/ \E r \in Refs, e \in Events : HandleMessage(r, e[1], e[2])
    \/ \E r \in Refs : GetMessage(r)
    \/ \E r \in Refs : WaitForMessage(r)
    \/ \E i \in DOMAIN calls : HandleLookup(i)
    \/ \E i \in DOMAIN calls : HandleCtxDone(i)
    \/ \E i \in DOMAIN calls : HandleRemoveWaiter(i)
    \/ \E i \in DOMAIN calls : WaitGet(i)
    \/ \E i \in DOMAIN calls : GetRemove(i)
    \/ \E i \in DOMAIN calls : WaitAddWaiter(i)
    \/ \E i \in DOMAIN calls : WaitCtxDone(i)
    \/ \E i \in DOMAIN calls : WaitRemoveWaiter(i)
    \/ \E i \in DOMAIN calls : Expire(i)
    \/ \E i, j \in DOMAIN calls : Notify(i, j)

vars == <<cache, waiters, calls, storedRefs, keepEvents, limiterVars,
          dispatcherVars>>

SpecTracker == TrackerInit /\ [][TrackerStep]_vars

\* The tracker with the events of its HandleMessage calls kept in the call
\* records.
StoreInit ==
    /\ DispatcherInit
    /\ keepEvents = TRUE
    /\ LimiterInit
    /\ \E n \in 0..messageBacklog :
         /\ cache = [k \in 1..n |-> [ref |-> k, ev |-> 0 - k]]
         /\ storedRefs = 1..n
    /\ waiters = [r \in Refs |-> 0]
    /\ calls = <<>>

SpecStore == StoreInit /\ [][TrackerStep]_vars

\* The Limiter alone: a new Limiter, its driver, callers of Acquire and
\* TryAcquire, and Stop.
LimiterOnlyInit ==
    /\ DispatcherInit
    /\ keepEvents = FALSE
    /\ LimiterInit
    /\ cache = <<>>
    /\ storedRefs = {}
    /\ waiters = [r \in Refs |-> 0]
    /\ calls = <<>>

LimiterStep ==
    \/ Tick
    \/ DriverTick
    \/ DriverCtxDone
    \/ Stop
    \/ Acquire
    \/ TryAcquire
    \/ \E i \in DOMAIN calls : AcquireRecv(i)
    \/ \E i \in DOMAIN calls : AcquireCtxDone(i)
    \/ \E i \in DOMAIN calls : Expire(i)

SpecLimiter == LimiterOnlyInit /\ [][LimiterStep]_vars

\* The same with the scheduling the Go runtime gives: a goroutine that can
\* take a step takes one (the driver, a caller in its select), and the clock
\* goes on.  Whether anybody calls Acquire, TryAcquire or Stop, and whether a
\* ctx ends, is up to the callers.
LimiterFairness ==
    /\ WF_vars(Tick)
    /\ WF_vars(DriverTick)
    /\ WF_vars(DriverCtxDone)
    /\ \A i \in 1..MaxCalls : WF_vars(i \in DOMAIN calls /\ AcquireRecv(i))
    /\ \A i \in 1..MaxCalls : WF_vars(i \in DOMAIN calls /\ AcquireCtxDone(i))

SpecLimiterLive == SpecLimiter /\ LimiterFairness

\* The Engine: the dispatcher hands message events to
\* MessageTracker.HandleMessage and app_mention events to
\* Engine.HandleMention, each under its own request ctx; the TwilioClient's
\* Limiter runs beside them.
EngineStep ==
    \/ \E r \in Refs, e \in Events : HandleMessage(r, e[1], e[2])
    \/ \E r \in Refs, nameOk \in BOOLEAN : HandleMention(r, nameOk)
    \/ \E i \in DOMAIN calls : MentionWaitForMessage(i)
    \/ \E i \in DOMAIN calls, files \in {"none", "private", "public"},
          shareOk \in BOOLEAN : MentionFiles(i, files, shareOk)
    \/ \E i \in DOMAIN calls, answer \in {"ok", "fail"} : MentionHTTP(i, answer)
    \/ \E i \in DOMAIN calls : HandleLookup(i)
    \/ \E i \in DOMAIN calls : HandleCtxDone(i)
    \/ \E i \in DOMAIN calls : HandleRemoveWaiter(i)
    \/ \E i \in DOMAIN calls : WaitGet(i)
    \/ \E i \in DOMAIN calls : GetRemove(i)
    \/ \E i \in DOMAIN calls : WaitAddWaiter(i)
    \/ \E i \in DOMAIN calls : WaitCtxDone(i)
    \/ \E i \in DOMAIN calls : WaitRemoveWaiter(i)
    \/ \E i \in DOMAIN calls : Expire(i)
    \/ \E i, j \in DOMAIN calls : Notify(i, j)
    \/ Tick
    \/ DriverTick
    \/ \E i \in DOMAIN calls : AcquireRecv(i)
    \/ \E i \in DOMAIN calls : AcquireCtxDone(i)

SpecEngine == TrackerInit /\ [][EngineStep]_vars

\* The server of main.go: message events go to
\* MessageTracker.HandleMessage and app_mention events to
\* server.handleMention, each under its own request ctx; the twilioClient's
\* Limiter runs beside them.
ServerStep ==
    \/ \E r \in Refs, e \in Events : HandleMessage(r, e[1], e[2])
    \/ \E r \in Refs : handleMention(r)
    \/ \E i \in DOMAIN calls : MentionWaitForMessage(i)
    \/ \E i \in DOMAIN calls, files \in {"none", "private", "public"},
          shareOk \in BOOLEAN : ServerFiles(i, files, shareOk)
    \/ \E i \in DOMAIN calls, answer \in {"ok", "fail", "rejected"} :
          ServerSend(i, answer)
    \/ \E i \in DOMAIN calls : HandleLookup(i)
    \/ \E i \in DOMAIN calls : HandleCtxDone(i)
    \/ \E i \in DOMAIN calls : HandleRemoveWaiter(i)
    \/ \E i \in DOMAIN calls : WaitGet(i)
    \/ \E i \in DOMAIN calls : GetRemove(i)
    \/ \E i \in DOMAIN calls : WaitAddWaiter(i)
    \/ \E i \in DOMAIN calls : WaitCtxDone(i)
    \/ \E i \in DOMAIN calls : WaitRemoveWaiter(i)
    \/ \E i \in DOMAIN calls : Expire(i)
    \/ \E i, j \in DOMAIN calls : Notify(i, j)
    \/ Tick
    \/ DriverTick
    \/ \E i \in DOMAIN calls : AcquireRecv(i)
    \/ \E i \in DOMAIN calls : AcquireCtxDone(i)

SpecServer == TrackerInit /\ [][ServerStep]_vars

\* The dispatcher alone: registrations and requests in any order, the
\* handlers being any functions that return nil or an error.
DispatcherOnlyInit ==
    /\ DispatcherInit
    /\ keepEvents = FALSE
    /\ LimiterInit
    /\ cache = <<>>
    /\ storedRefs = {}
    /\ waiters = [r \in Refs |-> 0]
    /\ calls = <<>>

DispatcherStep ==
    \/ \E k \in Keys, h \in Handlers : SetEventHandler(k, h)
    \/ \E k \in Keys, h \in Handlers : SetCallbackHandler(k, h)
    \/ \E p \in Payloads : ServeHTTP(p)
    \/ \E i \in DOMAIN requests : Dispatch(i)
    \/ \E i \in DOMAIN requests, failed \in BOOLEAN : HandlerReturns(i, failed)

SpecDispatcher == DispatcherOnlyInit /\ [][DispatcherStep]_vars

\* chunkString as a function: any text of Texts, chunked once with any
\* chunk length of ChunkLens.
ChunkInit ==
    /\ DispatcherInit
    /\ keepEvents = FALSE
    /\ LimiterInit
    /\ cache = <<>>
    /\ storedRefs = {}
    /\ waiters = [r \in Refs |-> 0]
    /\ \E s \in Texts, n \in ChunkLens :
         calls = <<[NewCall("chunkString", 0, "call") EXCEPT
                      !.text = s, !.chunkLen = n]>>

ChunkStep == \E i \in DOMAIN calls : ChunkString(i)

SpecChunk == ChunkInit /\ [][ChunkStep]_vars

\* The Engine of twilio.go: the dispatcher hands message events to
\* Engine.HandleMessage, which sends through the TwilioClient and its Limiter.
SenderStep ==
    \/ EngineHandleMessage
    \/ \E i \in DOMAIN calls, answer \in {"ok", "fail"} : EngineSend(i, answer)
    \/ \E i \in DOMAIN calls : AcquireRecv(i)
    \/ \E i \in DOMAIN calls : AcquireCtxDone(i)
    \/ \E i \in DOMAIN calls : Expire(i)
    \/ Tick
    \/ DriverTick

SpecSender == LimiterOnlyInit /\ [][SenderStep]_vars

\* The Engine in either of its two versions, one per behaviour: the one
\* with the tracker and HandleMention (EngineStep), or the one of twilio.go
\* with Engine.HandleMessage (SenderStep).  The first handler call made
\* tells which one it is.
ReactionStep ==
    \/ /\ \A i \in DOMAIN calls : calls[i].op # "EngineHandleMessage"
       /\ EngineStep
    \/ /\ \A i \in DOMAIN calls : calls[i].op = "EngineHandleMessage"
       /\ SenderStep

SpecReactions == TrackerInit /\ [][ReactionStep]_vars

\* ------------------------------------------------------------------ claims
Consumers == {"GetMessage", "WaitForMessage"}

\* No other GetMessage or WaitForMessage call is made for the ref of call i.
OnlyConsumer(i) ==
    \A k \in DOMAIN calls :
        k # i /\ calls[k].op \in Consumers => calls[k].ref # calls[i].ref

\* C1: a lone WaitForMessage(r) does not report absence when, at the moment
\* its deadline expired, the event for r was in the cache and the
\* HandleMessage that stored it had returned.
C1_WaitReturnsStoredEvent ==
    \A i \in DOMAIN calls :
        ( /\ calls[i].op = "WaitForMessage"
          /\ calls[i].pc = "returned"
          /\ ~calls[i].retOk
          /\ OnlyConsumer(i) )
        => ~calls[i].settledAtExpiry

\* C2: one stored event is returned to at most one caller.
C2_ConsumeOnce ==
    \A i, j \in DOMAIN calls :
        (i # j /\ calls[i].retOk /\ calls[j].retOk)
        => calls[i].retEv # calls[j].retEv

\* Between the cache check of call i and its retrieval no other call touches
\* the entry: every HandleMessage was called before i, and no other
\* GetMessage or WaitForMessage is made for i's ref.
Undisturbed(i) ==
    /\ OnlyConsumer(i)
    /\ \A k \in DOMAIN calls : calls[k].op = "HandleMessage" => k < i

\* C5: a WaitForMessage(r) that finds r's event in the cache registers no
\* waiter and never enters the select; with the entry left alone by other
\* calls it returns exactly that event, with ok = true.
C5_StoredBeforeWaitReturnsAtOnce ==
    \A i \in DOMAIN calls :
        (calls[i].op = "WaitForMessage" /\ calls[i].seenEv # 0)
        => /\ calls[i].pc \in {"g_get", "g_remove", "returned", "panicked"}
           /\ calls[i].chan = 0
           /\ ~calls[i].deferred
           /\ \A r \in Refs : waiters[r] # i
           /\ Undisturbed(i) => calls[i].pc # "panicked"
           /\ (Undisturbed(i) /\ calls[i].pc = "returned")
              => calls[i].retOk /\ calls[i].retEv = calls[i].seenEv

C5_Witness ==
    \E i \in DOMAIN calls :
        /\ calls[i].op = "WaitForMessage"
        /\ calls[i].seenEv # 0
        /\ calls[i].pc = "returned"
        /\ Undisturbed(i)
        /\ calls[i].retOk
        /\ \E k \in DOMAIN calls : k < i /\ calls[i].retEv = k

\* C6: GetMessage for a ref that is not in the cache returns (nil, false):
\* no GetMessage call ends in a panic.
C6_GetMissReportsAbsence ==
    \A i \in DOMAIN calls :
        calls[i].op = "GetMessage" => calls[i].pc # "panicked"

\* C7: every registration in mt.waiters was made by a WaitForMessage call
\* that has not returned yet; once no WaitForMessage call is running,
\* mt.waiters is empty.
C7_WaiterUnregisteredOnEveryExit ==
    /\ \A r \in Refs :
         waiters[r] # 0 => /\ waiters[r] \in DOMAIN calls
                           /\ calls[waiters[r]].op = "WaitForMessage"
                           /\ Running(waiters[r])
    /\ (\A i \in DOMAIN calls : calls[i].op = "WaitForMessage" => ~Running(i))
       => \A r \in Refs : waiters[r] = 0

\* A WaitForMessage that registered a waiter has returned by each exit:
\* one by timeout and one after a notification.
C7_Witness ==
    /\ \E i \in DOMAIN calls :
         /\ calls[i].op = "WaitForMessage" /\ calls[i].seenEv = 0
         /\ calls[i].pc = "returned" /\ ~calls[i].retOk
    /\ \E i \in DOMAIN calls :
         /\ calls[i].op = "WaitForMessage" /\ calls[i].seenEv = 0
         /\ calls[i].pc = "returned" /\ calls[i].retOk
    /\ \A r \in Refs : waiters[r] = 0

\* C8: a WaitForMessage(r) for a ref that was never stored is never
\* notified, never reaches GetMessage and never panics; it returns only
\* with its ctx done, and then (nil, false).
C8_NeverStoredReturnsAbsenceAtDeadline ==
    \A i \in DOMAIN calls :
        (calls[i].op = "WaitForMessage" /\ calls[i].ref \notin storedRefs)
        => /\ calls[i].pc \in {"w_add", "w_select", "w_defer", "returned"}
           /\ calls[i].pc \in {"w_defer", "returned"}
              => /\ calls[i].ctxDone
                 /\ ~calls[i].retOk
                 /\ calls[i].retEv = 0

\* Such a call has returned while a HandleMessage for another ref was
\* blocked notifying that ref's waiter.
C8_Witness ==
    \E i, k \in DOMAIN calls :
        /\ calls[i].op = "WaitForMessage"
        /\ calls[i].ref \notin storedRefs
        /\ calls[i].pc = "returned"
        /\ calls[k].op = "HandleMessage"
        /\ calls[k].pc = "h_select"

\* This step inserted a ref that was not in the cache.
Inserted == CacheRefs(cache') \ CacheRefs(cache)

\* This step performed a successful mt.cache.Get for the ref of call i.
GotHit(i) ==
    /\ i \in DOMAIN calls'
    /\ calls'[i].gotOk
    /\ i \in DOMAIN calls => ~calls[i].gotOk

\* C9: the cache never holds more than messageBacklog entries, nor two for
\* one ref; inserting a new ref into a full cache evicts exactly the entry
\* at the back of the recency order; an insertion and a successful Get move
\* their entry to the front of that order and keep the order of the rest.
C9_CapacityAndLruEviction ==
    /\ [](/\ Len(cache) <= messageBacklog
          /\ Cardinality(CacheRefs(cache)) = Len(cache))
    /\ [][ /\ (Inserted # {} /\ Len(cache) = messageBacklog)
              => /\ Len(cache') = messageBacklog
                 /\ CacheRefs(cache) \ CacheRefs(cache')
                      = {cache[Len(cache)].ref}
                 /\ SubSeq(cache', 2, Len(cache'))
                      = SubSeq(cache, 1, Len(cache) - 1)
           /\ Inserted # {} => cache'[1].ref \in Inserted
           /\ \A i \in 1..MaxCalls :
                GotHit(i) => /\ cache'[1].ref = calls'[i].ref
                             /\ CacheWithout(cache', calls'[i].ref)
                                  = CacheWithout(cache, calls'[i].ref)
         ]_vars

\* An entry refreshed by a Get has survived an eviction: the cache is full,
\* its newest entry is the event of a HandleMessage call, a GetMessage is
\* between its Get and its Remove with its entry still cached, and the
\* other initial entry is gone without any call having been made for it.
C9_Witness ==
    /\ Len(cache) = messageBacklog
    /\ \E i, k \in DOMAIN calls :
         /\ calls[i].op = "HandleMessage"
         /\ cache[1].ev = i
         /\ calls[k].op = "GetMessage"
         /\ calls[k].pc = "g_remove"
         /\ k < i
         /\ CacheContains(cache, calls[k].ref)
    /\ \E r \in storedRefs :
         /\ ~CacheContains(cache, r)
         /\ \A k \in DOMAIN calls : calls[k].ref # r

\* The filter the specification gives Store: the text mentions the bot and
\* the channel is a public channel, a private group or a multi-party IM.
ClaimedAccepts(chType, mention) ==
    /\ chType \in {"channel", "group", "mim"}
    /\ mention

\* C10: a HandleMessage call inserts its event exactly when the event
\* passes ClaimedAccepts; otherwise it returns at once and leaves the cache
\* and the waiter registry as they were.
C10_StoreFilter ==
    [][ \A i \in 1..MaxCalls :
          ( /\ i = Len(calls) + 1
            /\ Len(calls') = i
            /\ calls'[i].op = "HandleMessage" )
          => IF ClaimedAccepts(calls'[i].chType, calls'[i].mention)
             THEN /\ Len(cache') >= 1
                  /\ cache'[1] = [ref |-> calls'[i].ref, ev |-> i]
             ELSE /\ cache' = cache
                  /\ waiters' = waiters
                  /\ calls'[i].pc = "returned"
      ]_vars

\* C3: a HandleMention whose full message never arrives and whose wait ends
\* by timeout still sends the body without media and, with a permit and a
\* gateway that does not fail, finishes with thumbsup and no error.
C3_TimeoutIsDegradedSuccess ==
    \A i \in DOMAIN calls :
        ( /\ calls[i].op = "HandleMention"
          /\ calls[i].pc = "returned"
          /\ calls[i].timedOut
          /\ calls[i].ref \notin storedRefs
          /\ calls[i].acquired
          /\ calls[i].http # "fail" )
        => ( /\ ~calls[i].media
             /\ calls[i].http = "ok"
             /\ ~calls[i].err
             /\ calls[i].reactions = <<"thumbsup">> )

\* C4: any N+1 permits are granted at least N*limit apart, so no window of
\* length N*limit holds more than N grants.
C4_RateBound ==
    \A i, j \in DOMAIN grantTimes :
        i < j => grantTimes[j] - grantTimes[i] >= (j - i) * limit

\* The calls of Acquire and TryAcquire that have returned true.
GotPermit ==
    {i \in DOMAIN calls : /\ calls[i].op \in {"Acquire", "TryAcquire"}
                          /\ calls[i].pc = "returned"
                          /\ calls[i].retOk}

\* C11: the number of calls that have returned true equals the number of
\* sends on l.throttle the driver has completed (grantTimes logs them), so
\* each permit goes to exactly one caller and a call that returns false has
\* taken none.
C11_OnePermitOneCaller ==
    Cardinality(GotPermit) = Len(grantTimes)

\* C11's case: two permits handed out, and a caller that gave up at the end
\* of its ctx.
C11_Witness ==
    /\ Len(grantTimes) = 2
    /\ \E i \in DOMAIN calls : /\ calls[i].op = "Acquire"
                               /\ calls[i].pc = "returned"
                               /\ calls[i].ctxDone
                               /\ ~calls[i].retOk

\* C12: once Stop has been called the driver eventually leaves its loop,
\* whatever it was doing.
C12_StopTerminatesDriver ==
    cancelled ~> (driver = "exited")

\* C13: a step that is a call of TryAcquire returns in that same step; it
\* returns true exactly when the driver is blocked in its send, and then
\* completes that one send; otherwise it leaves the Limiter as it was.
C13_TryAcquireNeverBlocks ==
    [][ ( /\ Len(calls') = Len(calls) + 1
          /\ calls'[Len(calls')].op = "TryAcquire" )
        => LET c == calls'[Len(calls')]
           IN  /\ c.pc = "returned"
               /\ c.retOk <=> (driver = "send")
               /\ c.retOk => /\ driver' = "select"
                             /\ grantTimes' = Append(grantTimes, now)
                             /\ UNCHANGED <<now, tickPending, cancelled>>
               /\ ~c.retOk => UNCHANGED limiterVars ]_vars

\* C13's case: one TryAcquire that found a permit and one that found none.
C13_Witness ==
    \E i, j \in DOMAIN calls :
        /\ calls[i].op = "TryAcquire" /\ calls[i].retOk
        /\ calls[j].op = "TryAcquire" /\ ~calls[j].retOk

\* A payload that parses and verifies.
Parses(p) == p.wellFormed /\ p.token = VerificationToken
Is2xx(status) == status \in 200..299
Is5xx(status) == status \in 500..599
\* The handler registered last under a key of a table, 0 if there is none.
LastRegistered(table, key) ==
    LET ns == {n \in DOMAIN registrations :
                 registrations[n].table = table /\ registrations[n].key = key}
    IN  IF ns = {} THEN 0
        ELSE registrations[CHOOSE n \in ns : \A m \in ns : m <= n].handler

\* C14: a request with a url_verification payload never calls a handler and
\* is answered with a 2xx status, the content type "text" and the challenge
\* as its body, whatever is registered.
C14_ChallengeEchoed ==
    \A i \in DOMAIN requests :
        LET r == requests[i]
        IN  (Parses(r.payload) /\ r.payload.type = URLVerification)
            => /\ r.invoked = <<>>
               /\ r.pc # "handler"
               /\ r.pc = "done" => /\ Is2xx(r.status)
                                   /\ r.ctype = "text"
                                   /\ r.body = r.payload.challenge

\* C14's case: a challenge answered while a handler is registered for
\* url_verification itself.
C14_Witness ==
    \E i \in DOMAIN requests :
        /\ requests[i].payload.type = URLVerification
        /\ requests[i].pc = "done"
        /\ requests[i].body = <<"a", "b">>
        /\ eventHandlers[URLVerification] # 0

\* C15: when a parsed request that is no challenge does its lookup and the
\* key (the inner type of a callback, the top-level type otherwise) has no
\* handler, the request ends there, with no handler called and a 2xx status.
C15_UnroutableIsSuccess ==
    [][ \A i \in DOMAIN requests :
          LET p == requests[i].payload
              registered == IF p.type = CallbackEvent
                            THEN callbackHandlers[p.inner]
                            ELSE eventHandlers[p.type]
          IN  ( /\ requests[i].pc = "switch"
                /\ requests'[i].pc # "switch"
                /\ p.type # URLVerification
                /\ registered = 0 )
              => /\ requests'[i].pc = "done"
                 /\ requests'[i].invoked = <<>>
                 /\ Is2xx(requests'[i].status) ]_vars

\* C15's case: an unroutable request answered while another key has a
\* handler.
C15_Witness ==
    \E i \in DOMAIN requests :
        /\ Parses(requests[i].payload)
        /\ requests[i].payload.type # URLVerification
        /\ requests[i].pc = "done"
        /\ requests[i].invoked = <<>>
        /\ registrations # <<>>

\* C16: a finished request has a 5xx status exactly when its payload does
\* not parse or verify, and then no handler was called, or when the handler
\* it called returned an error; otherwise its status is 2xx.
C16_ErrorStatus ==
    \A i \in DOMAIN requests :
        LET r == requests[i]
        IN  r.pc = "done"
            => /\ Is5xx(r.status) <=>
                    (~Parses(r.payload) \/ (r.invoked # <<>> /\ r.handlerErr))
               /\ ~Parses(r.payload) => r.invoked = <<>>
               /\ ~Is5xx(r.status) => Is2xx(r.status)

\* C16's case: a request whose handler returned an error.
C16_Witness ==
    \E i \in DOMAIN requests :
        /\ requests[i].pc = "done"
        /\ requests[i].invoked # <<>>
        /\ requests[i].handlerErr
        /\ requests[i].status = 500

\* C17: a request calls at most one handler, once: for a callback payload
\* one registered with SetCallbackHandler under the inner type, for any
\* other payload but the challenge one registered with SetEventHandler
\* under the top-level type.
C17_RoutingRule ==
    \A i \in DOMAIN requests :
        LET r == requests[i]
            p == r.payload
        IN  /\ Len(r.invoked) <= 1
            /\ r.invoked # <<>> =>
                 LET e == r.invoked[1]
                 IN  /\ Parses(p)
                     /\ p.type # URLVerification
                     /\ e.table = IF p.type = CallbackEvent THEN "callback"
                                                            ELSE "event"
                     /\ e.key = IF p.type = CallbackEvent THEN p.inner
                                                          ELSE p.type
                     /\ \E n \in DOMAIN registrations :
                          registrations[n] = [table |-> e.table, key |-> e.key,
                                              handler |-> e.handler]

\* C17's case: a callback handled by the callback handler of its inner type
\* while an event handler is registered for event_callback.
C17_Witness ==
    \E i \in DOMAIN requests :
        /\ requests[i].payload.type = CallbackEvent
        /\ requests[i].invoked # <<>>
        /\ requests[i].invoked[1].table = "callback"
        /\ eventHandlers[CallbackEvent] # 0

\* C18: each key of each table maps to the handler registered last, and a
\* request whose key held a handler at some time between its arrival and its
\* lookup calls exactly one handler, one of those the key held in that time.
C18_LastWriteWins ==
    /\ \A k \in Keys : /\ eventHandlers[k] = LastRegistered("event", k)
                       /\ callbackHandlers[k] = LastRegistered("callback", k)
    /\ \A i \in DOMAIN requests :
         LET r == requests[i]
         IN  (r.pc # "switch" /\ Parses(r.payload)
                /\ r.payload.type # URLVerification)
             => IF r.candidates = {}
                THEN r.invoked = <<>>
                ELSE /\ Len(r.invoked) = 1
                     /\ r.invoked[1].handler \in r.candidates

\* C18's case: a key re-registered between a request's arrival and its
\* lookup.
C18_Witness ==
    \E i \in DOMAIN requests :
        /\ Cardinality(requests[i].candidates) = 2
        /\ requests[i].invoked # <<>>

CeilDiv(a, b) == (a + b - 1) \div b

\* C19: chunkString(s, twilioMsgLimit) of a text of length L >= 1 returns
\* ceil(L / twilioMsgLimit) chunks, none of them empty.
C19_ChunkCount ==
    \A i \in DOMAIN calls :
        ( /\ calls[i].op = "chunkString"
          /\ calls[i].chunkLen = twilioMsgLimit
          /\ calls[i].pc = "returned"
          /\ Len(calls[i].text) >= 1 )
        => /\ Len(calls[i].chunks) = CeilDiv(Len(calls[i].text), twilioMsgLimit)
           /\ \A k \in DOMAIN calls[i].chunks : calls[i].chunks[k] # <<>>

\* C20: a SendMessage of Engine.HandleMessage that is not Chunked and whose
\* Acquire returned false has made no gateway request, is the last send of
\* its handler, and the handler has returned an error with thumbsdown.
C20_RateLimitIsFailure ==
    \A i \in DOMAIN calls :
        calls[i].op = "EngineHandleMessage"
        => \A k \in DOMAIN calls[i].sends :
             (~calls[i].sends[k].chunked /\ ~calls[i].sends[k].acquired)
             => /\ calls[i].sends[k].http = ""
                /\ k = Len(calls[i].sends)
                /\ calls[i].pc = "returned"
                /\ calls[i].err
                /\ calls[i].reactions = <<"thumbsdown">>

\* C20's case: the first send of a handler gave up at the end of its ctx
\* with no permit.
C20_Witness ==
    \E i \in DOMAIN calls :
        /\ calls[i].op = "EngineHandleMessage"
        /\ calls[i].ctxDone
        /\ Len(calls[i].sends) = 1
        /\ ~calls[i].sends[1].chunked
        /\ ~calls[i].sends[1].acquired

\* C21: a chunk marked Chunked that is sent although Acquire returned false
\* goes to the SMS gateway and can be delivered: its request is issued under
\* a context that is still live, so it is not refused before it leaves.
C21_PermitlessChunkCanBeDelivered ==
    \A i \in DOMAIN calls :
        \A k \in DOMAIN calls[i].sends :
            LET s == calls[i].sends[k]
            IN  s.chunked /\ ~s.acquired => s.http \in {"ok", "fail"}

\* The next step of call i inside the tracker, whichever it is.
OwnStep(i) ==
    \/ HandleLookup(i) \/ HandleCtxDone(i) \/ HandleRemoveWaiter(i)
    \/ WaitGet(i) \/ GetRemove(i)
    \/ WaitAddWaiter(i) \/ WaitCtxDone(i) \/ WaitRemoveWaiter(i)

\* C22: HandleMessage and WaitForMessage never deadlock.  A call that has
\* not finished can always take its next step, except in its select while
\* its own ctx is not done: no call waits for a lock held by a blocked call,
\* and from the expiry of its deadline every call runs to its end on its
\* own.
C22_NoDeadlock ==
    \A i \in DOMAIN calls :
        /\ Running(i)
        /\ calls[i].pc \in {"h_select", "w_select"} => calls[i].ctxDone
        => ENABLED OwnStep(i)

\* A HandleMessage that found a waiter and a WaitForMessage for the same
\* ref both gave up at their deadlines and both have returned.
C22_Witness ==
    \E i, j \in DOMAIN calls :
        /\ calls[i].op = "HandleMessage" /\ calls[j].op = "WaitForMessage"
        /\ calls[i].ref = calls[j].ref
        /\ calls[i].pc = "returned" /\ calls[i].ctxDone
        /\ calls[j].pc = "returned" /\ calls[j].timedOut

\* After the call of HandleMessage i nothing else touches its entry: no
\* later HandleMessage replaces or evicts it, and no GetMessage or
\* WaitForMessage for its ref gets as far as the cache.
LeftAlone(i) ==
    /\ \A k \in DOMAIN calls : k > i => calls[k].op # "HandleMessage"
    /\ \A k \in DOMAIN calls :
         (calls[k].op \in Consumers /\ calls[k].ref = calls[i].ref)
         => calls[k].timedOut \/ calls[k].pc \in {"w_add", "w_select"}

\* C23: a HandleMessage that found a waiter and leaves its select by
\* ctx.Done removes the registration of its ref and does not touch the
\* cache; the event it stored stays there for a later GetMessage unless
\* another call replaces, evicts or consumes it.
C23_TimeoutCleansUpKeepsEvent ==
    /\ [][\A i \in DOMAIN calls :
            /\ (calls[i].pc = "h_select" /\ calls'[i].pc = "h_remove")
               => calls[i].ctxDone /\ UNCHANGED <<cache, waiters>>
            /\ (calls[i].pc = "h_remove" /\ calls'[i].pc = "returned")
               => /\ cache' = cache
                  /\ waiters' = [waiters EXCEPT ![calls[i].ref] = 0]]_vars
    /\ [](\A i \in DOMAIN calls :
            ( /\ calls[i].op = "HandleMessage"
              /\ calls[i].pc = "returned" /\ calls[i].ctxDone
              /\ LeftAlone(i) )
            => /\ CacheContains(cache, calls[i].ref)
               /\ CacheEntry(cache, calls[i].ref).ev = i)

\* A HandleMessage gave up on its notification and returned, and a
\* GetMessage for its ref has returned the event it stored.
C23_Witness ==
    \E i, k \in DOMAIN calls :
        /\ calls[i].op = "HandleMessage"
        /\ calls[i].pc = "returned" /\ calls[i].ctxDone
        /\ waiters[calls[i].ref] = 0
        /\ calls[k].op = "GetMessage" /\ calls[k].ref = calls[i].ref
        /\ calls[k].pc = "returned" /\ calls[k].retOk /\ calls[k].retEv = i

\* Call i is inside a SendMessage of the chunk loop.
Sending(i) ==
    /\ calls[i].op = "EngineHandleMessage"
    /\ calls[i].pc \in {"a_select", "m_http"}

\* C24: the k-th SendMessage of one Engine.HandleMessage carries chunk k-1
\* of chunkString's result; every send but the last one made has succeeded,
\* so a chunk is sent only after the one before it succeeded, a failed send
\* is the last one, and no chunk is sent twice.
C24_ChunksInOrderNoRetry ==
    \A i \in DOMAIN calls :
        calls[i].op = "EngineHandleMessage" =>
        LET c == calls[i]
        IN  /\ Len(c.sends) <= Len(c.chunks)
            /\ \A k \in DOMAIN c.sends :
                 /\ c.sends[k].index = k - 1
                 /\ c.sends[k].chunk = c.chunks[k]
                 /\ k < Len(c.sends) => c.sends[k].http = "ok"
            /\ Sending(i)
               => /\ c.index = Len(c.sends)
                  /\ \A k \in DOMAIN c.sends : c.sends[k].http = "ok"
            /\ (c.sends # <<>> /\ c.sends[Len(c.sends)].http # "ok")
               => c.pc = "returned" /\ c.err

\* The second of three chunks failed at the gateway and the handler
\* returned without sending the third.
C24_Witness ==
    \E i \in DOMAIN calls :
        /\ calls[i].op = "EngineHandleMessage"
        /\ calls[i].pc = "returned"
        /\ Len(calls[i].chunks) = 3
        /\ Len(calls[i].sends) = 2
        /\ calls[i].sends[1].http = "ok"
        /\ calls[i].sends[2].http = "fail"

\* C25: only the first send of a chunk loop can carry the media URL, the
\* first send is not marked Chunked and every later one is.
C25_MediaFirstChunkedLater ==
    \A i \in DOMAIN calls :
        calls[i].op = "EngineHandleMessage" =>
        LET c == calls[i]
        IN  /\ \A k \in DOMAIN c.sends :
                 /\ c.sends[k].media => k = 1
                 /\ c.sends[k].chunked <=> k > 1
            /\ Sending(i)
               => /\ c.media => c.index = 0
                  /\ c.chunked <=> c.index > 0

\* Three chunks were sent: the first with the media URL and not Chunked,
\* the others Chunked and without media.
C25_Witness ==
    \E i \in DOMAIN calls :
        /\ calls[i].op = "EngineHandleMessage"
        /\ Len(calls[i].sends) = 3
        /\ calls[i].sends[1].media /\ ~calls[i].sends[1].chunked
        /\ \A k \in 2..3 : calls[i].sends[k].chunked /\ ~calls[i].sends[k].media

\* C27: a server.handleMention that has returned has posted exactly one
\* reaction: thumbsdown if its SendMessage returned an error, thumbsup
\* otherwise.
C27_OneReactionPerMention ==
    \A i \in DOMAIN calls :
        (calls[i].op = "handleMention" /\ calls[i].pc = "returned")
        => calls[i].reactions = IF calls[i].err THEN <<"thumbsdown">>
                                                ELSE <<"thumbsup">>

\* The reactions that report a failure and those that report a success.
FailureReactions == {"thumbsdown", "scronch"}
SuccessReactions == {"thumbsup", "foot"}

\* Call i is a HandleMention, or an Engine.HandleMessage whose event passed
\* the channel-type and mention filters.
Handled(i) ==
    \/ calls[i].op = "HandleMention"
    \/ calls[i].op = "EngineHandleMessage" /\ calls[i].passed

\* C26 as stated: every invocation of the handler that has ended has posted
\* exactly one reaction, a failure reaction if it returned an error and a
\* success reaction if it returned nil.
C26_EveryInvocationReacts ==
    \A i \in DOMAIN calls :
        (Handled(i) /\ ~Running(i))
        => /\ Len(calls[i].reactions) = 1
           /\ calls[i].err <=> calls[i].reactions[1] \in FailureReactions
           /\ ~calls[i].err <=> calls[i].reactions[1] \in SuccessReactions

\* C26, restricted to the invocations that return: a handler that is still
\* running has posted nothing, and one that returned has posted exactly one
\* reaction, a failure reaction exactly when it returned an error and a
\* success reaction exactly when it returned nil.  A HandleMention that
\* ends in the panic of GetMessage has posted nothing.
C26_OneReactionPerReturn ==
    \A i \in DOMAIN calls :
        Handled(i) =>
        /\ calls[i].pc # "returned" => calls[i].reactions = <<>>
        /\ calls[i].pc = "returned"
           => /\ Len(calls[i].reactions) = 1
              /\ calls[i].err <=> calls[i].reactions[1] \in FailureReactions
              /\ ~calls[i].err <=> calls[i].reactions[1] \in SuccessReactions

\* A HandleMention has returned an error after a failed send, with its one
\* failure reaction.
C26_Witness ==
    \E i \in DOMAIN calls :
        /\ calls[i].op = "HandleMention"
        /\ calls[i].pc = "returned"
        /\ calls[i].retOk /\ calls[i].acquired /\ calls[i].http = "fail"
        /\ calls[i].err
        /\ calls[i].reactions = <<"thumbsdown">>

\* C28: permits do not build up.  Whatever ticks fire while a permit waits
\* for a consumer, once it is consumed the next permit takes a later tick:
\* between two successive grants, after the first and no later than the
\* second, the ticker has fired.
C28_NextPermitAtLaterTick ==
    \A k \in 1..(Len(grantTimes) - 1) :
        \E t \in (grantTimes[k] + 1)..grantTimes[k + 1] : t % limit = 0

\* The sequences of ss joined in order.
RECURSIVE Concat(_)
Concat(ss) == IF ss = <<>> THEN <<>> ELSE Head(ss) \o Concat(Tail(ss))

\* C29: for chunkLen >= 1 the chunks chunkString(s, chunkLen) returns,
\* joined in order, are s, and none is longer than chunkLen.
C29_ChunksReproduceText ==
    \A i \in DOMAIN calls :
        ( /\ calls[i].op = "chunkString"
          /\ calls[i].pc = "returned"
          /\ calls[i].chunkLen >= 1 )
        => /\ Concat(calls[i].chunks) = calls[i].text
           /\ \A k \in DOMAIN calls[i].chunks :
                Len(calls[i].chunks[k]) <= calls[i].chunkLen

\* A text of two different letters cut into two full chunks and a shorter
\* last one.
C29_Witness ==
    \E i \in DOMAIN calls :
        /\ calls[i].op = "chunkString"
        /\ calls[i].pc = "returned"
        /\ calls[i].chunkLen = 2
        /\ Len(calls[i].text) = 5
        /\ \E j, k \in DOMAIN calls[i].text : calls[i].text[j] # calls[i].text[k]
        /\ Len(calls[i].chunks) = 3
        /\ Len(calls[i].chunks[3]) = 1

\* C30: a send of Engine.HandleMessage carries media only if the event has
\* exactly one file, which is public and not above twilioFileSizeLimit; with
\* no file, a private file or several files nothing is attached.
C30_MediaOnlyForOnePublicFile ==
    \A i \in DOMAIN calls :
        calls[i].op = "EngineHandleMessage" =>
        LET c == calls[i]
            attaches == \/ \E k \in DOMAIN c.sends : c.sends[k].media
                        \/ Sending(i) /\ c.media
        IN  attaches => /\ c.files.count = 1
                        /\ c.files.isPublic
                        /\ ~c.files.tooLarge

\* C31: the registration of a WaitForMessage that is blocked in its select
\* stays in place: mt.waiters holds its channel for its ref until the call
\* itself leaves the select, whatever other WaitForMessage and HandleMessage
\* calls for the ref do, so that a HandleMessage that looks the ref up finds
\* this channel.
C31_RegistrationKeptWhileBlocked ==
    \A i \in DOMAIN calls :
        (calls[i].op = "WaitForMessage" /\ calls[i].pc = "w_select")
        => waiters[calls[i].ref] = calls[i].chan

\* C32: a WaitForMessage never reaches mt.cache.Get on a missing entry: no
\* WaitForMessage call ends, or is about to end, in the panic of GetMessage.
C32_WaitNeverGetsMissingEntry ==
    \A i \in DOMAIN calls :
        calls[i].op = "WaitForMessage"
        => calls[i].pc \notin {"w_defer_panic", "panicked"}

==============================================================================
